---------------------------- MODULE Spec2Model ----------------------------
(*************************************************************************)
(* Model of github.com/libtnb/sessions: the Session life cycle           *)
(* (session.go), the Manager's pool and per-ID lock registry             *)
(* (manager.go) and the in-memory test driver.                           *)
(*                                                                       *)
(* A request is a process p: it builds a session, sets its ID from the   *)
(* cookie, starts it, mutates it, saves it and releases it.  Save is     *)
(* split at every access to shared state (lock registry, mutex, driver   *)
(* read, driver write, unlock); everything between two such accesses is  *)
(* local to the request and belongs to the step that precedes it.        *)
(*************************************************************************)
EXTENDS Integers, Sequences, FiniteSets, TLC

VARIABLES
    store,          \* memoryDriver.data: session ID -> stored blob
    sess,           \* per request: the Session object's fields
    pc,             \* per request: where the request stands
    final,          \* per request: Save's local variable `final`
    ret,            \* per request: what the last Save returned
    sessionLocks,   \* Manager.sessionLocks: the IDs that have a mutex entry
    locked,         \* the IDs whose mutex is currently locked
    ops,            \* mutator calls made so far, by all requests (bounded)
    intent,         \* history: per request, key -> the last call that named it
    lastWriter,     \* history: session ID -> process whose driver.Write ran last
    flashed,        \* history: session ID -> keys the last writer had flashed
    carried,        \* history: per request, the flashed keys of the record it loaded
    seed,           \* history: the store as it was initially
    drivers,        \* Manager.drivers: the names that have a driver registered
    sessionID,      \* per request: StartSession's local `sessionID`
    setCookie       \* per request: the Set-Cookie value on the response

\* What the session and the manager themselves work on
core == <<store, sess, pc, final, ret, sessionLocks, locked, ops,
          intent, lastWriter, flashed, carried, seed>>

\* The registered drivers and the middleware's locals
env == <<drivers, sessionID, setCookie>>

vars == <<core, env>>

-----------------------------------------------------------------------------
(* Bounds of the model *)

MaxOps == 3
NumWorkers == 2

(* Program constants *)

IDLength == 32

CookieName == "session"
OtherName == "other"

FlashOld == "_flash.old"
FlashNew == "_flash.new"

(* Session IDs: one that arrives in cookies, the ones generateSessionID  *)
(* hands out, and a malformed cookie value.                              *)
IdA == "AAAAAAAAAAAAAAAAAAAAAAAAAAAAAAAA"
GenIDs == << "G1G1G1G1G1G1G1G1G1G1G1G1G1G1G1G1",
             "G2G2G2G2G2G2G2G2G2G2G2G2G2G2G2G2",
             "G3G3G3G3G3G3G3G3G3G3G3G3G3G3G3G3",
             "G4G4G4G4G4G4G4G4G4G4G4G4G4G4G4G4" >>
BadID == "short"
LongID == "LLLLLLLLLLLLLLLLLLLLLLLLLLLLLLLLL"
NoID == ""

(* Driver names: the one the tests register, the one BuildSession falls  *)
(* back to, and one nobody registers.                                    *)
MockDriver == "mock"
DefaultDriver == "default"
UnknownDriver == "redis"
NoDriver == ""
NoHeader == "none"

UserKeys == {"a", "b"}
Values == {1, 2}

-----------------------------------------------------------------------------
(* Go maps as functions with a finite domain *)

EmptyMap == [k \in {} |-> 0]

MapPut(m, key, value) ==
    [k \in DOMAIN m \cup {key} |-> IF k = key THEN value ELSE m[k]]

MapDelete(m, keys) == [k \in DOMAIN m \ keys |-> m[k]]

\* stdmaps.Copy(dst, src)
MapCopy(dst, src) ==
    [k \in DOMAIN dst \cup DOMAIN src |-> IF k \in DOMAIN src THEN src[k] ELSE dst[k]]

SeqToSet(q) == {q[i] : i \in 1..Len(q)}

\* slices.Contains
Contains(q, x) == x \in SeqToSet(q)

\* slices.DeleteFunc(q, func(i) bool { return i == x })
RECURSIVE DeleteAll(_, _)
DeleteAll(q, x) ==
    IF q = << >> THEN << >>
    ELSE IF Head(q) = x THEN DeleteAll(Tail(q), x)
    ELSE << Head(q) >> \o DeleteAll(Tail(q), x)

-----------------------------------------------------------------------------
(* The codec and the driver *)

\* What codec.Encode(name, attributes) yields when it succeeds: the blob is
\* bound to the session name.
Encode(name, attributes) == [kind |-> "blob", name |-> name, data |-> attributes]

\* A stored value that no codec decodes (tampered, expired, truncated).
Corrupt == [kind |-> "corrupt"]

\* codec.Decode(name, value, &data) succeeds
DecodeOk(name, value) == value.kind = "blob" /\ value.name = name

\* memoryDriver.Read(id) succeeds: the record exists and the backend is up
ReadOk(id, up) == up /\ id \in DOMAIN store

Nil == [kind |-> "nil"]

\* Variant: the decoded blob is accepted whatever name it is bound to
readFromHandlerAnyName(s, up) ==
    IF ~ReadOk(s.id, up) THEN Nil
    ELSE IF store[s.id].kind # "blob" THEN Nil
    ELSE [kind |-> "map", data |-> store[s.id].data]

\* Session.readFromHandler: nil on a read error and on a decode error
readFromHandler(s, up) ==
    IF ~ReadOk(s.id, up) THEN Nil
    ELSE IF ~DecodeOk(s.name, store[s.id]) THEN Nil
    ELSE [kind |-> "map", data |-> store[s.id].data]


-----------------------------------------------------------------------------
(* The Session object (session.go).  A session s is a record of the      *)
(* struct's fields; each method is an operator from the session before   *)
(* the call to the session after it.                                     *)

\* The instance sync.Pool's New builds, and the one reset() leaves behind.
\* codec and manager are TRUE when bound (non-nil); driver is the bound
\* driver's name, NoDriver when nil.
PoolSession ==
    [id |-> NoID, name |-> "", attributes |-> EmptyMap, puts |-> EmptyMap,
     forgets |-> {}, started |-> FALSE, dirty |-> FALSE, flushed |-> FALSE,
     codec |-> FALSE, driver |-> NoDriver, manager |-> FALSE]

\* Variant: reset leaves the buffered deltas and the attributes in place
resetKeepsData(s) ==
    [s EXCEPT !.id = NoID, !.name = "", !.codec = FALSE, !.driver = NoDriver,
              !.manager = FALSE, !.started = FALSE, !.dirty = FALSE,
              !.flushed = FALSE]

reset(s) ==
    [s EXCEPT !.id = NoID, !.name = "", !.attributes = EmptyMap,
              !.puts = EmptyMap, !.forgets = {}, !.codec = FALSE,
              !.driver = NoDriver, !.manager = FALSE, !.started = FALSE,
              !.dirty = FALSE, !.flushed = FALSE]

Get(s, key, default) ==
    IF key \in DOMAIN s.attributes THEN s.attributes[key] ELSE default

Exists(s, key) == key \in DOMAIN s.attributes

\* the model stores no nil values, so present means non-nil
Has(s, key) == key \in DOMAIN s.attributes

\* Variant: Put leaves the key in forgets
PutKeepsForget(s, key, value) ==
    [s EXCEPT !.attributes = MapPut(@, key, value),
              !.puts = MapPut(@, key, value),
              !.dirty = TRUE]

Put(s, key, value) ==
    [s EXCEPT !.attributes = MapPut(@, key, value),
              !.puts = MapPut(@, key, value),
              !.forgets = @ \ {key},
              !.dirty = TRUE]

\* Forget(keys...): keys is the sequence of the variadic arguments
Forget(s, keys) ==
    [s EXCEPT !.attributes = MapDelete(@, SeqToSet(keys)),
              !.forgets = @ \cup SeqToSet(keys),
              !.puts = MapDelete(@, SeqToSet(keys)),
              !.dirty = TRUE]

Pull(s, key) ==
    [s EXCEPT !.forgets = @ \cup {key},
              !.puts = MapDelete(@, {key}),
              !.dirty = TRUE,
              !.attributes = MapDelete(@, {key})]

Flush(s) ==
    [s EXCEPT !.attributes = EmptyMap, !.puts = EmptyMap, !.forgets = {},
              !.flushed = TRUE, !.dirty = TRUE]

RECURSIVE DeleteEach(_, _)
DeleteEach(old, keys) ==
    IF keys = << >> THEN old
    ELSE DeleteEach(DeleteAll(old, Head(keys)), Tail(keys))

removeFromOldFlashData(s, keys) ==
    Put(s, FlashOld, DeleteEach(Get(s, FlashOld, << >>), keys))

RECURSIVE AppendMissing(_, _)
AppendMissing(values, keys) ==
    IF keys = << >> THEN values
    ELSE AppendMissing(IF Contains(values, Head(keys)) THEN values
                       ELSE Append(values, Head(keys)),
                       Tail(keys))

mergeNewFlashes(s, keys) ==
    Put(s, FlashNew, AppendMissing(Get(s, FlashNew, << >>), keys))

\* Variant: Flash marks the key for this request only, as Now does
FlashMarksOld(s, key, value) ==
    LET s1 == Put(s, key, value)
    IN  Put(s1, FlashOld, Append(Get(s1, FlashOld, << >>), key))

Flash(s, key, value) ==
    LET s1 == Put(s, key, value)
        s2 == Put(s1, FlashNew, Append(Get(s1, FlashNew, << >>), key))
    IN  removeFromOldFlashData(s2, << key >>)

Now(s, key, value) ==
    LET s1 == Put(s, key, value)
    IN  Put(s1, FlashOld, Append(Get(s1, FlashOld, << >>), key))

Keep(s, keys) == removeFromOldFlashData(mergeNewFlashes(s, keys), keys)

Reflash(s) ==
    Put(mergeNewFlashes(s, Get(s, FlashOld, << >>)), FlashOld, << >>)

\* Variant: the keys of _flash.old are not forgotten when the lists rotate
ageFlashDataKeepsOld(s) ==
    LET old == Get(s, FlashOld, << >>)
        newFlash == Get(s, FlashNew, << >>)
    IN  IF Len(old) = 0 /\ Len(newFlash) = 0 THEN s
        ELSE Put(Put(s, FlashOld, newFlash), FlashNew, << >>)

ageFlashData(s) ==
    LET old == Get(s, FlashOld, << >>)
        newFlash == Get(s, FlashNew, << >>)
        s1 == IF Len(old) > 0 THEN Forget(s, old) ELSE s
    IN  IF Len(old) = 0 /\ Len(newFlash) = 0 THEN s
        ELSE Put(Put(s1, FlashOld, newFlash), FlashNew, << >>)

\* Variant: any ID up to the expected length is accepted
isValidIDAtMost(id) == Len(id) <= IDLength

isValidID(id) == Len(id) = IDLength

\* Session.loadSession: copy what the backend holds over the attributes
loadSession(s, up) ==
    LET data == readFromHandler(s, up)
    IN  IF data # Nil THEN [s EXCEPT !.attributes = MapCopy(@, data.data)]
        ELSE s

\* Variant: Start drops what the request has buffered
StartDropsDeltas(s, up) ==
    [loadSession(s, up) EXCEPT !.started = TRUE, !.puts = EmptyMap, !.forgets = {}]

Start(s, up) == [loadSession(s, up) EXCEPT !.started = TRUE]

\* Variant: the persisted state wins over this request's puts
SaveFinalLatestWins(s, up) ==
    IF s.flushed THEN s.attributes
    ELSE LET data == readFromHandler(s, up)
             latest == IF data = Nil THEN EmptyMap ELSE data.data
             afterForgets == MapDelete(latest, s.forgets)
         IN  MapCopy(s.puts, afterForgets)

\* Variant: no re-read, the session's own view is written back
SaveFinalNoReread(s, up) == s.attributes

\* Variant: the flushed flag is ignored and every Save merges
SaveFinalAlwaysMerge(s, up) ==
    LET data == readFromHandler(s, up)
        latest == IF data = Nil THEN EmptyMap ELSE data.data
        afterForgets == MapDelete(latest, s.forgets)
    IN  MapCopy(afterForgets, s.puts)

\* Variant: every in-memory attribute is merged over the latest state,
\* not only the puts
SaveFinalFromAttributes(s, up) ==
    IF s.flushed THEN s.attributes
    ELSE LET data == readFromHandler(s, up)
             latest == IF data = Nil THEN EmptyMap ELSE data.data
             afterForgets == MapDelete(latest, s.forgets)
         IN  MapCopy(afterForgets, s.attributes)

\* Save, lines 162-180: the attribute set to persist
SaveFinal(s, up) ==
    IF s.flushed THEN s.attributes
    ELSE LET data == readFromHandler(s, up)
             latest == IF data = Nil THEN EmptyMap ELSE data.data
             afterForgets == MapDelete(latest, s.forgets)
         IN  MapCopy(afterForgets, s.puts)


SetID(s, id, fresh) == [s EXCEPT !.id = IF isValidID(id) THEN id ELSE fresh]

-----------------------------------------------------------------------------
(* The Manager (manager.go) and the requests *)

\* IDs some session, record or lock entry already carries
UsedIDs == {sess[q].id : q \in DOMAIN sess} \cup DOMAIN store \cup sessionLocks

FreshIndexes == {i \in 1..Len(GenIDs) : GenIDs[i] \notin UsedIDs}

\* Session.generateSessionID: an ID nothing carries yet
generateSessionID == GenIDs[CHOOSE i \in FreshIndexes : \A j \in FreshIndexes : i <= j]

\* History: for each of `keys`, the last call of the request that named
\* it, the value it set (as a one-element sequence; NoValue when it set
\* none), and the last of the
\* flash calls Now ("now"), Flash ("flash"), Keep and Reflash ("keep")
\* that named it ("none" when none did; Put, Forget and Pull leave it)
NoValue == << >>
NoteKeys(p, keys, call, value) ==
    intent' = [intent EXCEPT ![p] =
                  [k \in DOMAIN @ \cup keys |->
                      IF k \notin keys THEN @[k]
                      ELSE [call |-> call, value |-> value,
                            mark |-> IF call \in {"now", "flash", "keep"} THEN call
                                     ELSE IF k \in DOMAIN @ THEN @[k].mark
                                     ELSE "none"]]]

\* the request's last call naming key was `call`
LastCall(p, key, call) == key \in DOMAIN intent[p] /\ intent[p][key].call = call

\* the request's last flash call naming key was `mark`
LastMark(p, key, mark) == key \in DOMAIN intent[p] /\ intent[p][key].mark = mark

\* the request set key with Flash, has not re-marked it since and has not
\* removed it
HoldsFlashed(p, key) == LastMark(p, key, "flash") /\ ~LastCall(p, key, "forget")

\* The errors Manager.driver returns
ErrDriverNotSet == "driver is not set"
ErrDriverNotSupported == "driver not supported"

\* Manager.driver(name...): name is the sequence of the variadic arguments
driver(name) ==
    LET driverName == IF Len(name) > 0 THEN name[1] ELSE DefaultDriver
    IN  IF driverName = NoDriver
        THEN [err |-> ErrDriverNotSet, handler |-> NoDriver]
        ELSE IF driverName \notin drivers
        THEN [err |-> ErrDriverNotSupported, handler |-> NoDriver]
        ELSE [err |-> "nil", handler |-> driverName]

\* Variant: BuildSession binds the session and leaves its ID unset
BuildSessionNoID(p, name, drv) ==
    /\ pc[p] = "pool"
    /\ LET h == driver(drv)
       IN  IF h.err # "nil"
           THEN /\ ret' = [ret EXCEPT ![p] = h.err]
                /\ UNCHANGED <<sess, pc>>
           ELSE /\ sess' = [sess EXCEPT ![p] =
                               [@ EXCEPT !.name = name, !.codec = TRUE,
                                         !.driver = h.handler, !.manager = TRUE]]
                /\ pc' = [pc EXCEPT ![p] = "built"]
                /\ ret' = [ret EXCEPT ![p] = "none"]
    /\ UNCHANGED <<store, final, sessionLocks, locked, ops, intent, lastWriter,
                   flashed, carried, seed>>

\* Manager.BuildSession(name, driver...): on a driver error, the error and
\* no session; else a pooled instance, given an ID and bound
BuildSession(p, name, drv) ==
    /\ pc[p] = "pool"
    /\ LET h == driver(drv)
       IN  IF h.err # "nil"
           THEN /\ ret' = [ret EXCEPT ![p] = h.err]
                /\ UNCHANGED <<sess, pc>>
           ELSE /\ FreshIndexes # {}
                /\ sess' = [sess EXCEPT ![p] =
                               [@ EXCEPT !.id = generateSessionID, !.name = name,
                                         !.codec = TRUE, !.driver = h.handler,
                                         !.manager = TRUE]]
                /\ pc' = [pc EXCEPT ![p] = "built"]
                /\ ret' = [ret EXCEPT ![p] = "none"]
    /\ UNCHANGED <<store, final, sessionLocks, locked, ops, intent, lastWriter,
                   flashed, carried, seed>>

\* Session.SetID(id) with the cookie's value
DoSetID(p, id) ==
    /\ pc[p] = "built"
    /\ isValidID(id) \/ FreshIndexes # {}
    /\ sess' = [sess EXCEPT ![p] = SetID(@, id, generateSessionID)]
    /\ UNCHANGED <<store, pc, final, ret, sessionLocks, locked, ops, intent,
                   lastWriter, flashed, carried, seed>>

\* Session.Start(); up: whether the driver's Read can succeed
DoStart(p, up) ==
    /\ pc[p] = "built"
    /\ sess' = [sess EXCEPT ![p] = Start(@, up)]
    /\ pc' = [pc EXCEPT ![p] = "req"]
    /\ carried' = [carried EXCEPT ![p] =
                      IF readFromHandler(sess[p], up) # Nil /\ sess[p].id \in DOMAIN flashed
                      THEN flashed[sess[p].id] ELSE {}]
    /\ UNCHANGED <<store, final, ret, sessionLocks, locked, ops, intent,
                   lastWriter, flashed, seed>>

\* A mutator call of the request's handler
Mutate(p, after) ==
    /\ pc[p] = "req"
    /\ ops < MaxOps
    /\ sess' = [sess EXCEPT ![p] = after]
    /\ ops' = ops + 1
    /\ UNCHANGED <<store, pc, final, ret, sessionLocks, locked, lastWriter,
                   flashed, carried, seed>>

DoPut(p, key, value) ==
    Mutate(p, Put(sess[p], key, value)) /\ NoteKeys(p, {key}, "put", << value >>)

DoForget(p, key) ==
    Mutate(p, Forget(sess[p], << key >>)) /\ NoteKeys(p, {key}, "forget", NoValue)

DoPull(p, key) ==
    Mutate(p, Pull(sess[p], key)) /\ NoteKeys(p, {key}, "forget", NoValue)

DoFlush(p) ==
    Mutate(p, Flush(sess[p])) /\ intent' = [intent EXCEPT ![p] = EmptyMap]

DoFlash(p, key, value) ==
    Mutate(p, Flash(sess[p], key, value)) /\ NoteKeys(p, {key}, "flash", << value >>)

DoNow(p, key, value) ==
    Mutate(p, Now(sess[p], key, value)) /\ NoteKeys(p, {key}, "now", << value >>)

DoKeep(p, key) ==
    Mutate(p, Keep(sess[p], << key >>)) /\ NoteKeys(p, {key}, "keep", NoValue)

DoReflash(p) ==
    Mutate(p, Reflash(sess[p])) /\ NoteKeys(p, UserKeys, "keep", NoValue)

\* Variant: Save does not look at dirty and always goes on to the lock
SaveBeginNoDirtyCheck(p) ==
    /\ pc[p] \in {"req", "done"}
    /\ LET s1 == ageFlashData(sess[p])
       IN  /\ sess' = [sess EXCEPT ![p] = s1]
           /\ pc' = [pc EXCEPT ![p] = "lock"]
           /\ ret' = [ret EXCEPT ![p] = "none"]
           /\ sessionLocks' = sessionLocks \cup {s1.id}
    /\ UNCHANGED <<store, final, locked, ops, intent, lastWriter, flashed, carried, seed>>

\* Start() called again by the request's handler
DoStartAgain(p, up) ==
    Mutate(p, Start(sess[p], up)) /\ UNCHANGED intent

\* Variant: the new ID is assigned although Destroy failed
migrateIgnoresDestroyError(p, s, destroy, destroyOk) ==
    /\ pc[p] = "req"
    /\ ops < MaxOps
    /\ ops' = ops + 1
    /\ FreshIndexes # {}
    /\ store' = IF destroy /\ destroyOk THEN MapDelete(store, {s.id}) ELSE store
    /\ lastWriter' = IF destroy /\ destroyOk THEN MapDelete(lastWriter, {s.id}) ELSE lastWriter
    /\ flashed' = IF destroy /\ destroyOk THEN MapDelete(flashed, {s.id}) ELSE flashed
    /\ sess' = [sess EXCEPT ![p] =
                   [s EXCEPT !.id = generateSessionID, !.dirty = TRUE, !.flushed = TRUE]]
    /\ ret' = [ret EXCEPT ![p] = IF destroy /\ ~destroyOk THEN "err" ELSE "ok"]
    /\ UNCHANGED <<pc, final, sessionLocks, locked, carried, seed>>

\* Session.migrate(destroy...) on the session s the caller hands it;
\* destroyOk: whether the driver's Destroy succeeds
migrate(p, s, destroy, destroyOk) ==
    /\ pc[p] = "req"
    /\ ops < MaxOps
    /\ ops' = ops + 1
    /\ IF destroy /\ ~destroyOk
       THEN /\ sess' = [sess EXCEPT ![p] = s]
            /\ ret' = [ret EXCEPT ![p] = "err"]
            /\ UNCHANGED <<store, lastWriter, flashed>>
       ELSE /\ FreshIndexes # {}
            /\ store' = IF destroy THEN MapDelete(store, {s.id}) ELSE store
            /\ lastWriter' = IF destroy THEN MapDelete(lastWriter, {s.id}) ELSE lastWriter
            /\ flashed' = IF destroy THEN MapDelete(flashed, {s.id}) ELSE flashed
            /\ sess' = [sess EXCEPT ![p] =
                           [s EXCEPT !.id = generateSessionID, !.dirty = TRUE,
                                     !.flushed = TRUE]]
            /\ ret' = [ret EXCEPT ![p] = "ok"]
    /\ UNCHANGED <<pc, final, sessionLocks, locked, carried, seed>>

\* Session.Regenerate(destroy...): destroy is the sequence of the arguments
DoRegenerate(p, destroy, destroyOk) ==
    /\ migrate(p, sess[p], Len(destroy) > 0 /\ destroy[1], destroyOk)
    /\ UNCHANGED intent

\* Session.Invalidate(): Flush, then migrate(true)
DoInvalidate(p, destroyOk) ==
    /\ migrate(p, Flush(sess[p]), TRUE, destroyOk)
    /\ intent' = [intent EXCEPT ![p] = EmptyMap]

\* Save, lines 150-160: age the flash data, return if clean, else
\* LockSession's LoadOrStore
SaveBegin(p) ==
    /\ pc[p] \in {"req", "done"}
    /\ LET s1 == ageFlashData(sess[p])
       IN  /\ sess' = [sess EXCEPT ![p] = s1]
           /\ IF ~s1.dirty
              THEN /\ pc' = [pc EXCEPT ![p] = "done"]
                   /\ ret' = [ret EXCEPT ![p] = "ok"]
                   /\ UNCHANGED sessionLocks
              ELSE /\ pc' = [pc EXCEPT ![p] = "lock"]
                   /\ ret' = [ret EXCEPT ![p] = "none"]
                   /\ sessionLocks' = sessionLocks \cup {s1.id}
    /\ UNCHANGED <<store, final, locked, ops, intent, lastWriter, flashed, carried, seed>>

\* Variant: the lock is taken without waiting for the holder
SaveLockNoWait(p) ==
    /\ pc[p] = "lock"
    /\ locked' = locked \cup {sess[p].id}
    /\ pc' = [pc EXCEPT ![p] = "locked"]
    /\ UNCHANGED <<store, sess, final, ret, sessionLocks, ops, intent,
                   lastWriter, flashed, carried, seed>>

\* LockSession's mu.Lock(): blocks while the ID's mutex is locked
SaveLock(p) ==
    /\ pc[p] = "lock"
    /\ sess[p].id \notin locked
    /\ locked' = locked \cup {sess[p].id}
    /\ pc' = [pc EXCEPT ![p] = "locked"]
    /\ UNCHANGED <<store, sess, final, ret, sessionLocks, ops, intent,
                   lastWriter, flashed, carried, seed>>

\* Save, lines 162-180: re-read and merge, or take the attributes as they are
SaveMerge(p, up) ==
    /\ pc[p] = "locked"
    /\ final' = [final EXCEPT ![p] = SaveFinal(sess[p], up)]
    /\ pc' = [pc EXCEPT ![p] = "write"]
    /\ UNCHANGED <<store, sess, ret, sessionLocks, locked, ops, intent,
                   lastWriter, flashed, carried, seed>>

\* History: p's driver write succeeded
NoteWrite(p) ==
    /\ lastWriter' = MapPut(lastWriter, sess[p].id, p)
    /\ flashed' = MapPut(flashed, sess[p].id, {k \in UserKeys : HoldsFlashed(p, k)})

\* Variant: dirty is cleared before the write is known to have succeeded
SaveWriteClearsDirtyEarly(p, encOk, writeOk) ==
    /\ pc[p] = "write"
    /\ IF encOk /\ writeOk
       THEN /\ store' = MapPut(store, sess[p].id, Encode(sess[p].name, final[p]))
            /\ sess' = [sess EXCEPT ![p] = [@ EXCEPT !.dirty = FALSE, !.started = FALSE]]
            /\ ret' = [ret EXCEPT ![p] = "ok"]
            /\ NoteWrite(p)
       ELSE /\ ret' = [ret EXCEPT ![p] = "err"]
            /\ sess' = [sess EXCEPT ![p] = [@ EXCEPT !.dirty = ~encOk]]
            /\ UNCHANGED <<store, lastWriter, flashed>>
    /\ final' = [final EXCEPT ![p] = EmptyMap]
    /\ pc' = [pc EXCEPT ![p] = "unlock"]
    /\ UNCHANGED <<sessionLocks, locked, ops, intent, carried, seed>>

\* Save, lines 182-193: encode, write, clear the flags
SaveWrite(p, encOk, writeOk) ==
    /\ pc[p] = "write"
    /\ IF encOk /\ writeOk
       THEN /\ store' = MapPut(store, sess[p].id, Encode(sess[p].name, final[p]))
            /\ sess' = [sess EXCEPT ![p] = [@ EXCEPT !.dirty = FALSE, !.started = FALSE]]
            /\ ret' = [ret EXCEPT ![p] = "ok"]
            /\ NoteWrite(p)
       ELSE /\ ret' = [ret EXCEPT ![p] = "err"]
            /\ UNCHANGED <<store, sess, lastWriter, flashed>>
    /\ final' = [final EXCEPT ![p] = EmptyMap]
    /\ pc' = [pc EXCEPT ![p] = "unlock"]
    /\ UNCHANGED <<sessionLocks, locked, ops, intent, carried, seed>>

\* Variant: the lock is released only when Save returns nil
SaveUnlockOnSuccessOnly(p) ==
    /\ pc[p] = "unlock"
    /\ locked' = IF ret[p] = "ok" THEN locked \ {sess[p].id} ELSE locked
    /\ pc' = [pc EXCEPT ![p] = "done"]
    /\ UNCHANGED <<store, sess, final, ret, sessionLocks, ops, intent,
                   lastWriter, flashed, carried, seed>>

\* the deferred UnlockSession(id)
SaveUnlock(p) ==
    /\ pc[p] = "unlock"
    /\ locked' = IF sess[p].id \in sessionLocks THEN locked \ {sess[p].id} ELSE locked
    /\ pc' = [pc EXCEPT ![p] = "done"]
    /\ UNCHANGED <<store, sess, final, ret, sessionLocks, ops, intent,
                   lastWriter, flashed, carried, seed>>

\* Manager.ReleaseSession: reset and back to the pool
ReleaseSession(p) ==
    /\ pc[p] = "done"
    /\ sess' = [sess EXCEPT ![p] = reset(@)]
    /\ pc' = [pc EXCEPT ![p] = "pool"]
    /\ ret' = [ret EXCEPT ![p] = "none"]
    /\ intent' = [intent EXCEPT ![p] = EmptyMap]
    /\ carried' = [carried EXCEPT ![p] = {}]
    /\ UNCHANGED <<store, final, sessionLocks, locked, ops, lastWriter, flashed, seed>>

-----------------------------------------------------------------------------
(* Spec: two concurrent requests that use Put, Forget, Pull and Flush,   *)
(* with the cookie's ID or each with a generated one, against a backend  *)
(* that may fail to read, to encode or to write.  Request p puts the     *)
(* value p, so the two requests' writes can be told apart.               *)

Requests == {1, 2}

\* The record an earlier request left under the cookie's ID
SeedRecord == Encode(CookieName, [k \in {"a"} |-> 1])

InitWith(procs, stores) ==
    /\ store \in stores
    /\ seed = store
    /\ sess = [p \in procs |-> PoolSession]
    /\ pc = [p \in procs |-> "pool"]
    /\ final = [p \in procs |-> EmptyMap]
    /\ ret = [p \in procs |-> "none"]
    /\ sessionLocks = {}
    /\ locked = {}
    /\ ops = 0
    /\ intent = [p \in procs |-> EmptyMap]
    /\ lastWriter = EmptyMap
    /\ flashed = EmptyMap
    /\ carried = [p \in procs |-> {}]
    /\ sessionID = [p \in procs |-> NoID]
    /\ setCookie = [p \in procs |-> NoHeader]

Init ==
    /\ InitWith(Requests, {EmptyMap, [i \in {IdA} |-> SeedRecord]})
    /\ drivers = {MockDriver}

Next ==
    \E p \in Requests :
        \/ BuildSession(p, CookieName, << MockDriver >>) /\ UNCHANGED env
        \/ DoSetID(p, IdA) /\ UNCHANGED env
        \/ \E up \in BOOLEAN : DoStart(p, up) /\ UNCHANGED env
        \/ \E k \in UserKeys : DoPut(p, k, p) /\ UNCHANGED env
        \/ \E k \in UserKeys : DoForget(p, k) /\ UNCHANGED env
        \/ \E k \in UserKeys : DoPull(p, k) /\ UNCHANGED env
        \/ DoFlush(p) /\ UNCHANGED env
        \/ SaveBegin(p) /\ UNCHANGED env
        \/ SaveLock(p) /\ UNCHANGED env
        \/ \E up \in BOOLEAN : SaveMerge(p, up) /\ UNCHANGED env
        \/ \E encOk \in BOOLEAN, writeOk \in BOOLEAN : SaveWrite(p, encOk, writeOk) /\ UNCHANGED env
        \/ SaveUnlock(p) /\ UNCHANGED env

Spec == Init /\ [][Next]_vars


-----------------------------------------------------------------------------
(* Properties of Spec *)

Procs == DOMAIN pc

\* p holds its ID's mutex
Holding(p) == pc[p] \in {"locked", "write", "unlock"}

\* p has taken the lock and has not yet written: its read-merge-write cycle
InCycle(p) == pc[p] \in {"locked", "write"}

\* p's last Save returned nil
Saved(p) == pc[p] = "done" /\ ret[p] = "ok"

\* C2: when two sessions with the same ID both put key k with different
\* values and both have saved successfully, the persisted value of k is
\* the value put by the one whose driver write ran last.
C2_LastWriteWins ==
    \A p \in Procs, q \in Procs, k \in UserKeys :
        ( /\ p # q
          /\ sess[p].id = sess[q].id
          /\ Saved(p) /\ Saved(q)
          /\ LastCall(p, k, "put") /\ LastCall(q, k, "put")
          /\ intent[p][k].value # intent[q][k].value
          /\ sess[p].id \in DOMAIN lastWriter
          /\ lastWriter[sess[p].id] = p )
        => /\ sess[p].id \in DOMAIN store
           /\ DecodeOk(sess[p].name, store[sess[p].id])
           /\ k \in DOMAIN store[sess[p].id].data
           /\ << store[sess[p].id].data[k] >> = intent[p][k].value

\* Both requests put "a" under the cookie's ID, request 1 (built first or
\* not) wrote last, and its value is the one persisted.
C2_Witness ==
    /\ Saved(1) /\ Saved(2)
    /\ sess[1].id = IdA /\ sess[2].id = IdA
    /\ LastCall(1, "a", "put") /\ intent[1]["a"].value = << 1 >>
    /\ LastCall(2, "a", "put") /\ intent[2]["a"].value = << 2 >>
    /\ IdA \in DOMAIN lastWriter /\ lastWriter[IdA] = 1
    /\ store[IdA].data["a"] = 1

\* C3: two sessions with the same ID are never both inside Save's
\* read-merge-write cycle, and a session waiting for its ID's lock can take
\* it whenever no session with the same ID holds it, whatever is held for
\* other IDs.
C3_SavesSerializedPerID ==
    /\ \A p \in Procs, q \in Procs :
          (p # q /\ sess[p].id = sess[q].id) => ~(InCycle(p) /\ InCycle(q))
    /\ \A p \in Procs :
          ( /\ pc[p] = "lock"
            /\ \A q \in Procs \ {p} : Holding(q) => sess[q].id # sess[p].id )
          => ENABLED SaveLock(p)

\* One request is about to write under the cookie's ID while the other
\* waits for the same ID's lock.
C3_Witness ==
    \E p \in Procs, q \in Procs :
        /\ p # q
        /\ sess[p].id = sess[q].id
        /\ pc[p] = "write"
        /\ pc[q] = "lock"

\* C4 (as claimed): the lock registry holds an entry for an ID only while
\* some caller holds or waits for that ID's lock.
C4_RegistryTracksContention ==
    \A id \in sessionLocks :
        \E p \in Procs : sess[p].id = id /\ pc[p] \in {"lock", "locked", "write", "unlock"}

\* C5: a successful write of a flushed session stores exactly the session's
\* in-memory attributes under its ID, whatever the backend held before.
C5_FlushedSaveOverwrites ==
    [][ \A p \in Procs :
          ( /\ pc[p] = "write" /\ pc'[p] = "unlock"
            /\ ret'[p] = "ok"
            /\ sess[p].flushed )
          => /\ sess[p].id \in DOMAIN store'
             /\ store'[sess[p].id] = Encode(sess[p].name, sess[p].attributes)
      ]_vars

\* Request q persisted a key it had put under the shared ID; request p,
\* flushed, saved after it, and the key is gone from the record.
C5_Witness ==
    \E p \in Procs, q \in Procs, k \in UserKeys :
        /\ p # q
        /\ sess[p].id = sess[q].id
        /\ Saved(p) /\ Saved(q)
        /\ sess[p].flushed /\ ~sess[q].flushed
        /\ LastCall(q, k, "put")
        /\ sess[p].id \in DOMAIN lastWriter /\ lastWriter[sess[p].id] = p
        /\ store[sess[p].id] = Encode(sess[p].name, sess[p].attributes)
        /\ k \notin DOMAIN store[sess[p].id].data

\* C7: when the encode or the driver write of a Save fails, Save returns
\* the error, the session is still dirty and the backend is unchanged; no
\* other step of a Save but a successful write changes the backend.
C7_FailedSaveKeepsDirtyAndStore ==
    [][ \A p \in Procs :
          /\ \A encOk \in BOOLEAN, writeOk \in BOOLEAN :
                (SaveWrite(p, encOk, writeOk) /\ ~(encOk /\ writeOk))
                => /\ ret'[p] = "err"
                   /\ sess[p].dirty /\ sess'[p].dirty
                   /\ store' = store
          /\ (pc[p] = "unlock" /\ pc'[p] = "done" /\ ret[p] = "err")
                => /\ ret'[p] = "err"
                   /\ sess'[p].dirty
                   /\ store' = store
          /\ (SaveBegin(p) \/ SaveLock(p) \/ \E up \in BOOLEAN : SaveMerge(p, up))
                => store' = store
      ]_vars

\* A Save has returned an error: the session is dirty and the backend is
\* as it was initially.
C7_Witness ==
    \E p \in Procs :
        /\ pc[p] = "done" /\ ret[p] = "err"
        /\ sess[p].dirty
        /\ sess[p].id = IdA
        /\ store = seed /\ IdA \in DOMAIN store


-----------------------------------------------------------------------------
(* SpecDisjoint: NumWorkers concurrent requests that share the cookie's  *)
(* ID; worker w puts and forgets only its own key, nobody touches the    *)
(* seed key.  The driver's reads succeed; encodes and writes may fail   *)
(* and be retried.                                                       *)

Workers == 1..NumWorkers

WorkerKeys == << "k1", "k2", "k3", "k4" >>
WorkerKey(w) == WorkerKeys[w]
SeedKey == "seed"
DisjointKeys == {WorkerKey(w) : w \in Workers}

\* The records an earlier request may have left: none, or the seed key and
\* any of the workers' keys, value 1
SeedStores ==
    {EmptyMap} \cup
    {[i \in {IdA} |-> Encode(CookieName, [k \in {SeedKey} \cup ks |-> 1])] :
        ks \in SUBSET DisjointKeys}

InitDisjoint == InitWith(Workers, SeedStores) /\ drivers = {MockDriver}

NextDisjoint ==
    \E w \in Workers :
        \/ BuildSession(w, CookieName, << MockDriver >>) /\ UNCHANGED env
        \/ DoSetID(w, IdA) /\ UNCHANGED env
        \/ sess[w].id = IdA /\ DoStart(w, TRUE) /\ UNCHANGED env
        \/ \E v \in Values : DoPut(w, WorkerKey(w), v) /\ UNCHANGED env
        \/ DoForget(w, WorkerKey(w)) /\ UNCHANGED env
        \/ SaveBegin(w) /\ UNCHANGED env
        \/ SaveLock(w) /\ UNCHANGED env
        \/ SaveMerge(w, TRUE) /\ UNCHANGED env
        \/ \E encOk \in BOOLEAN, writeOk \in BOOLEAN : SaveWrite(w, encOk, writeOk) /\ UNCHANGED env
        \/ SaveUnlock(w) /\ UNCHANGED env

SpecDisjoint == InitDisjoint /\ [][NextDisjoint]_vars

\* What a fresh session with the given ID sees after Start
LoadedBy(id) ==
    Start([PoolSession EXCEPT !.id = id, !.name = CookieName, !.codec = TRUE,
                              !.driver = MockDriver, !.manager = TRUE], TRUE).attributes

FreshLoad == LoadedBy(IdA)

\* What was persisted under the cookie's ID before the requests began
SeedData == IF IdA \in DOMAIN seed THEN seed[IdA].data ELSE EmptyMap

-----------------------------------------------------------------------------
(* SpecSeq: one client whose requests follow one another, each on a      *)
(* session taken from the pool: build, SetID with the cookie's ID,       *)
(* Start, mutators and flash calls, one Save, release.  The backend may  *)
(* hold a good, a foreign or a corrupt record and may fail to read, to   *)
(* encode or to write.                                                   *)

Clients == {1}

SeqStores ==
    {EmptyMap} \cup
    {[i \in {IdA} |-> r] : r \in {Corrupt, Encode(OtherName, [k \in {"a"} |-> 1]), SeedRecord}}

\* The values the client's calls set
PutValue == 1
FlashValue == 2

InitSeq == InitWith(Clients, SeqStores) /\ drivers = {MockDriver}

NextSeq ==
    \E p \in Clients :
        \/ BuildSession(p, CookieName, << MockDriver >>) /\ UNCHANGED env
        \/ DoSetID(p, IdA) /\ UNCHANGED env
        \/ \E up \in BOOLEAN : sess[p].id = IdA /\ DoStart(p, up) /\ UNCHANGED env
        \/ \E k \in UserKeys : DoPut(p, k, PutValue) /\ UNCHANGED env
        \/ \E k \in UserKeys : DoForget(p, k) /\ UNCHANGED env
        \/ \E k \in UserKeys : DoPull(p, k) /\ UNCHANGED env
        \/ DoFlush(p) /\ UNCHANGED env
        \/ \E k \in UserKeys : DoFlash(p, k, FlashValue) /\ UNCHANGED env
        \/ \E k \in UserKeys : DoNow(p, k, FlashValue) /\ UNCHANGED env
        \/ \E k \in UserKeys : DoKeep(p, k) /\ UNCHANGED env
        \/ DoReflash(p) /\ UNCHANGED env
        \/ pc[p] = "req" /\ SaveBegin(p) /\ UNCHANGED env
        \/ SaveLock(p) /\ UNCHANGED env
        \/ \E up \in BOOLEAN : SaveMerge(p, up) /\ UNCHANGED env
        \/ \E encOk \in BOOLEAN, writeOk \in BOOLEAN : SaveWrite(p, encOk, writeOk) /\ UNCHANGED env
        \/ SaveUnlock(p) /\ UNCHANGED env
        \/ ReleaseSession(p) /\ UNCHANGED env
        \/ \E destroy \in {<< >>, << FALSE >>, << TRUE >>}, destroyOk \in BOOLEAN :
              DoRegenerate(p, destroy, destroyOk) /\ UNCHANGED env
        \/ \E destroyOk \in BOOLEAN : DoInvalidate(p, destroyOk) /\ UNCHANGED env

SpecSeq == InitSeq /\ [][NextSeq]_vars

-----------------------------------------------------------------------------
(* Properties of SpecSeq *)

\* p's Save writes the record in this step and returns nil
WroteOk(p) == pc[p] = "write" /\ pc'[p] = "unlock" /\ ret'[p] = "ok"

\* The backend has nothing that decodes under s's name: the read fails, no
\* record exists for the ID, or the record is corrupt or bound to another
\* name
Unreadable(s, up) ==
    \/ ~up
    \/ s.id \notin DOMAIN store
    \/ store[s.id].kind # "blob"
    \/ store[s.id].name # s.name

\* Both flash lists of s are empty or absent
NoFlashLists(s) ==
    Len(Get(s, FlashOld, << >>)) = 0 /\ Len(Get(s, FlashNew, << >>)) = 0

\* Save returns nil at once: no lock entry, no lock, no read, no write,
\* and the session as it was
ReturnsAtOnce(p) ==
    /\ pc'[p] = "done"
    /\ ret'[p] = "ok"
    /\ sessionLocks' = sessionLocks
    /\ locked' = locked
    /\ store' = store

\* C6, as stated: whenever Save is called on a session whose dirty is
\* false, it returns nil at once without taking the lock and without any
\* driver read or write.
C6_CleanSaveReturnsAtOnce ==
    [][\A p \in Procs : (SaveBegin(p) /\ ~sess[p].dirty) => ReturnsAtOnce(p)]_vars

\* C6, amended: whenever Save is called on a session whose dirty is false
\* and whose flash lists _flash.old and _flash.new are both empty or
\* absent, it returns nil at once without taking the lock and without any
\* driver read or write, and leaves the session as it was.
C6_CleanSaveWithoutFlashReturnsAtOnce ==
    [][\A p \in Procs :
          (SaveBegin(p) /\ ~sess[p].dirty /\ NoFlashLists(sess[p]))
          => ReturnsAtOnce(p) /\ sess'[p] = sess[p]]_vars

\* A request loaded the persisted record, changed nothing, and its Save
\* returned nil: no lock entry was ever made and the backend is as it was.
C6_Witness ==
    \E p \in Procs :
        /\ pc[p] = "done" /\ ret[p] = "ok"
        /\ ~sess[p].dirty /\ sess[p].started
        /\ sess[p].attributes # EmptyMap
        /\ sessionLocks = {} /\ locked = {}
        /\ store = seed

\* C8: when the backend read fails, finds no record, or finds a record
\* that does not decode under the session's name, Start leaves the
\* attributes empty and the session started and usable, and the re-read
\* of a merging Save counts as an empty latest state, so what is persisted
\* is exactly the session's own puts.
C8_BadRecordIsEmptySession ==
    [][\A p \in Procs : \A up \in BOOLEAN :
          /\ (DoStart(p, up) /\ Unreadable(sess[p], up))
             => /\ sess'[p].attributes = EmptyMap
                /\ sess'[p].started
                /\ pc'[p] = "req"
          /\ (SaveMerge(p, up) /\ ~sess[p].flushed /\ Unreadable(sess[p], up))
             => final'[p] = sess[p].puts]_vars

\* A record bound to another name sits under the cookie's ID; the request
\* started empty, put "b", and its merging Save is about to write just that.
C8_Witness ==
    \E p \in Procs :
        /\ pc[p] = "write"
        /\ sess[p].id \in DOMAIN store
        /\ store[sess[p].id] = Encode(OtherName, [k \in {"a"} |-> 1])
        /\ sess[p].started /\ ~sess[p].flushed
        /\ DOMAIN sess[p].attributes = {"b"}
        /\ final[p] = sess[p].puts
        /\ DOMAIN final[p] = {"b"}

Untouched(p, key) ==
    \/ key \notin DOMAIN intent[p]
    \/ intent[p][key].mark = "none" /\ ~sess[p].flushed

\* C10: a key set with Flash and neither re-marked nor removed since is
\* in the record the request's successful Save persists, with the value
\* set; the next request that loads that record sees the key with that
\* value; and the record that next request's successful Save persists
\* does not hold the key, provided the request did not re-mark it.
C10_FlashValueLastsOneMoreRequest ==
    [][\A p \in Procs : \A k \in UserKeys :
          /\ (WroteOk(p) /\ HoldsFlashed(p, k))
             => /\ k \in DOMAIN store'[sess[p].id].data
                /\ LastCall(p, k, "flash")
                   => << store'[sess[p].id].data[k] >> = intent[p][k].value
          /\ \A up \in BOOLEAN :
                (DoStart(p, up) /\ k \in carried'[p])
                => /\ Has(sess'[p], k)
                   /\ Get(sess'[p], k, 0) = store[sess[p].id].data[k]
          /\ (WroteOk(p) /\ k \in carried[p] /\ Untouched(p, k))
             => k \notin DOMAIN store'[sess[p].id].data]_vars

\* The request before this one flashed "a" and persisted it; this request
\* loaded it, did not name it, and its Save wrote a record without it.
C10_Witness ==
    \E p \in Procs :
        /\ pc[p] = "done" /\ ret[p] = "ok"
        /\ "a" \in carried[p]
        /\ "a" \notin DOMAIN intent[p]
        /\ ~sess[p].flushed
        /\ sess[p].id \in DOMAIN store
        /\ "a" \notin DOMAIN store[sess[p].id].data

-----------------------------------------------------------------------------
(* SpecOps: SpecSeq, with handlers that may also call Start again.       *)

NextOps ==
    \/ NextSeq
    \/ \E p \in Clients, up \in BOOLEAN : DoStartAgain(p, up) /\ UNCHANGED env

SpecOps == InitSeq /\ [][NextOps]_vars

\* C11: in every reachable state no key is in both puts and forgets of a
\* session, and while the handler runs, a key whose last call was Put is
\* in puts and not in forgets, and a key whose last call was Forget or
\* Pull is in forgets and not in puts.
C11_PutsAndForgetsDisjoint ==
    \A p \in Procs :
        /\ DOMAIN sess[p].puts \cap sess[p].forgets = {}
        /\ \A k \in UserKeys :
              /\ (pc[p] = "req" /\ LastCall(p, k, "put"))
                 => k \in DOMAIN sess[p].puts /\ k \notin sess[p].forgets
              /\ (pc[p] = "req" /\ LastCall(p, k, "forget"))
                 => k \in sess[p].forgets /\ k \notin DOMAIN sess[p].puts

\* After three calls the handler's last call on "a" was Put and on "b"
\* was Forget or Pull: "a" is only in puts, "b" only in forgets.
C11_Witness ==
    \E p \in Procs :
        /\ pc[p] = "req" /\ ops = 3
        /\ LastCall(p, "a", "put") /\ LastCall(p, "b", "forget")
        /\ "a" \in DOMAIN sess[p].puts /\ "b" \in sess[p].forgets

-----------------------------------------------------------------------------
(* More properties of SpecSeq *)

\* C12: a session in the pool has every field at its zero value, and a
\* session BuildSession has handed out, whatever the request before it
\* did, has empty attributes, puts and forgets and started, dirty and
\* flushed false; only the ID and the bindings BuildSession set are there.
C12_ReusedSessionIsPristine ==
    \A p \in Procs :
        /\ pc[p] = "pool" => sess[p] = PoolSession
        /\ pc[p] = "built" =>
              /\ sess[p].attributes = EmptyMap
              /\ sess[p].puts = EmptyMap
              /\ sess[p].forgets = {}
              /\ ~sess[p].started /\ ~sess[p].dirty /\ ~sess[p].flushed
              /\ sess[p].name = CookieName
              /\ sess[p].driver = MockDriver

\* An earlier request on this instance made two calls and persisted its
\* record; the instance has been released and built again.
C12_Witness ==
    \E p \in Procs :
        /\ pc[p] = "built"
        /\ ops >= 2
        /\ lastWriter # EmptyMap
        /\ sess[p].attributes = EmptyMap

-----------------------------------------------------------------------------
(* SpecMw: the StartSession middleware serving one client's requests,    *)
(* one after the other.  The manager has no driver, the tests' driver or *)
(* a default driver; the middleware is given no driver name, the tests'  *)
(* name, an unregistered name or the empty name; the request carries no  *)
(* cookie or one of any length; the handler puts, forgets or regenerates.*)

MwStores == {EmptyMap, [i \in {IdA} |-> SeedRecord]}

DriverSets == {{}, {MockDriver}, {DefaultDriver}}

DriverArgs == {<< >>, << MockDriver >>, << UnknownDriver >>, << NoDriver >>}

CookieValues == {IdA, BadID, LongID, NoID}

InitMw == InitWith(Clients, MwStores) /\ drivers \in DriverSets

\* StartSession, lines 145-152: BuildSession, http.Error on failure
MwBuild(p, drv) ==
    /\ BuildSession(p, CookieName, drv)
    /\ sessionID' = [sessionID EXCEPT ![p] = NoID]
    /\ setCookie' = [setCookie EXCEPT ![p] = NoHeader]
    /\ UNCHANGED drivers

\* StartSession, lines 153-156: the request's cookie is found
MwCookie(p, id) ==
    /\ sessionID[p] = NoID
    /\ DoSetID(p, id)
    /\ sessionID' = [sessionID EXCEPT ![p] = id]
    /\ UNCHANGED <<drivers, setCookie>>

\* StartSession, lines 166-180: http.SetCookie if the ID is not the
\* cookie's, then Save up to its first access to shared state
MwRespond(p) ==
    /\ pc[p] = "req"
    /\ setCookie' = [setCookie EXCEPT ![p] =
                        IF sess[p].id # sessionID[p] THEN sess[p].id ELSE NoHeader]
    /\ SaveBegin(p)
    /\ UNCHANGED <<drivers, sessionID>>

NextMw ==
    \E p \in Clients :
        \/ \E drv \in DriverArgs : MwBuild(p, drv)
        \/ \E id \in CookieValues : MwCookie(p, id)
        \/ \E up \in BOOLEAN : DoStart(p, up) /\ UNCHANGED env
        \/ \E k \in UserKeys : DoPut(p, k, PutValue) /\ UNCHANGED env
        \/ \E k \in UserKeys : DoForget(p, k) /\ UNCHANGED env
        \/ \E destroyOk \in BOOLEAN : DoRegenerate(p, << TRUE >>, destroyOk) /\ UNCHANGED env
        \/ MwRespond(p)
        \/ SaveLock(p) /\ UNCHANGED env
        \/ \E up \in BOOLEAN : SaveMerge(p, up) /\ UNCHANGED env
        \/ \E encOk \in BOOLEAN, writeOk \in BOOLEAN :
              SaveWrite(p, encOk, writeOk) /\ UNCHANGED env
        \/ SaveUnlock(p) /\ UNCHANGED env
        \/ ReleaseSession(p) /\ UNCHANGED env

SpecMw == InitMw /\ [][NextMw]_vars

-----------------------------------------------------------------------------
(* Properties of SpecMw *)

GeneratedIDs == SeqToSet(GenIDs)

\* C13: SetID(id) makes id the session's ID when id is 32 characters
\* long; for any other id (empty, shorter, longer) the session's ID
\* afterwards is a generated one, 32 characters long, and not id.
C13_SetIDAcceptsOnlyFullLength ==
    [][\A p \in Procs : \A id \in CookieValues :
          DoSetID(p, id) =>
              IF Len(id) = 32
              THEN sess'[p].id = id
              ELSE /\ sess'[p].id \in GeneratedIDs
                   /\ Len(sess'[p].id) = 32
                   /\ sess'[p].id # id]_vars

\* The request's cookie was too long, and the session carries a generated
\* ID, not the one BuildSession gave it.
C13_Witness ==
    \E p \in Procs :
        /\ pc[p] = "built"
        /\ sessionID[p] = LongID
        /\ sess[p].id \in GeneratedIDs
        /\ sess[p].id # GenIDs[1]

\* p's BuildSession returns a session in this step
Built(p) == pc[p] = "pool" /\ pc'[p] = "built"

\* C14, as stated: the session a successful BuildSession returns is bound
\* to the name and the driver, has no ID, empty attributes and
\* started == false, and the backend was not touched.
C14_BuildSessionAssignsNoID ==
    [][\A p \in Procs :
          Built(p) =>
              /\ sess'[p].name = CookieName
              /\ sess'[p].driver \in drivers /\ sess'[p].codec /\ sess'[p].manager
              /\ sess'[p].id = NoID
              /\ sess'[p].attributes = EmptyMap
              /\ ~sess'[p].started
              /\ store' = store]_vars

\* C14, amended: the session a successful BuildSession returns is bound
\* to the name, the driver, the codec and the manager, carries a freshly
\* generated 32-character ID under which the backend holds no record, has
\* empty attributes and started == false, and the backend was not touched.
C14_BuildSessionAssignsFreshID ==
    [][\A p \in Procs :
          Built(p) =>
              /\ sess'[p].name = CookieName
              /\ sess'[p].driver \in drivers /\ sess'[p].codec /\ sess'[p].manager
              /\ sess'[p].id \in GeneratedIDs
              /\ Len(sess'[p].id) = 32
              /\ sess'[p].id \notin DOMAIN store
              /\ sess'[p].attributes = EmptyMap
              /\ ~sess'[p].started
              /\ store' = store]_vars

\* The backend holds a record under the cookie's ID; the session just
\* built carries a generated ID and none of the record's data.
C14_Witness ==
    \E p \in Procs :
        /\ pc[p] = "built"
        /\ sessionID[p] = NoID
        /\ IdA \in DOMAIN store
        /\ sess[p].id \in GeneratedIDs
        /\ sess[p].attributes = EmptyMap
        /\ ~sess[p].started

\* C15, as stated: BuildSession with a non-empty driver name that is not
\* registered fails with the not-supported (not found) error, and
\* BuildSession with no driver name and no "default" driver registered
\* fails with the distinct not-set (not specified) error; either way no
\* session is returned and the pooled instance is as it was.
C15_DriverErrorsAreDistinct ==
    [][\A p \in Procs : \A drv \in DriverArgs :
          BuildSession(p, CookieName, drv) =>
              /\ (Len(drv) > 0 /\ drv[1] # NoDriver /\ drv[1] \notin drivers)
                 => /\ ret'[p] = ErrDriverNotSupported
                    /\ pc'[p] = "pool" /\ sess'[p] = sess[p]
              /\ (Len(drv) = 0 /\ DefaultDriver \notin drivers)
                 => /\ ret'[p] = ErrDriverNotSet
                    /\ pc'[p] = "pool" /\ sess'[p] = sess[p]]_vars

\* C17, as stated: when the request came without a session cookie, its
\* handler mutated the session and Save has returned, the response has a
\* Set-Cookie header exactly when Save returned nil.
C17_CookieOnlyIfSaveSucceeded ==
    \A p \in Procs :
        (pc[p] = "done" /\ sessionID[p] = NoID /\ intent[p] # EmptyMap)
        => (setCookie[p] # NoHeader <=> ret[p] = "ok")

-----------------------------------------------------------------------------
(* Regenerate and Invalidate, in SpecSeq *)

\* What a successful migrate leaves: a generated ID that is not the old
\* one and has no record, flushed and dirty set
Migrated(p) ==
    /\ ret'[p] = "ok"
    /\ sess'[p].id \in GeneratedIDs
    /\ sess'[p].id # sess[p].id
    /\ sess'[p].id \notin DOMAIN store
    /\ sess'[p].flushed /\ sess'[p].dirty

\* What a migrate whose Destroy failed leaves: the error, the ID and the
\* backend as they were
MigrateFailed(p) ==
    /\ ret'[p] = "err"
    /\ sess'[p].id = sess[p].id
    /\ store' = store

\* C16: Regenerate keeps the attributes and Invalidate empties attributes,
\* puts and forgets; both then give the session a freshly generated ID
\* and set flushed and dirty; with destroy (always for Invalidate) the
\* record under the old ID is gone from the backend, without it the
\* backend is untouched; if the Destroy fails the error is returned and
\* the ID is unchanged; and the next successful Save of the session writes
\* exactly its attributes under the new ID and changes no other record.
C16_MigrateGivesFreshIDAndOverwrites ==
    [][\A p \in Procs :
          /\ \A destroy \in {<< >>, << FALSE >>, << TRUE >>}, destroyOk \in BOOLEAN :
                DoRegenerate(p, destroy, destroyOk) =>
                    LET d == Len(destroy) > 0 /\ destroy[1]
                    IN  /\ sess'[p].attributes = sess[p].attributes
                        /\ IF d /\ ~destroyOk THEN MigrateFailed(p)
                           ELSE /\ Migrated(p)
                                /\ d => store' = MapDelete(store, {sess[p].id})
                                /\ ~d => store' = store
          /\ \A destroyOk \in BOOLEAN :
                DoInvalidate(p, destroyOk) =>
                    /\ sess'[p].attributes = EmptyMap
                    /\ sess'[p].puts = EmptyMap
                    /\ sess'[p].forgets = {}
                    /\ IF ~destroyOk THEN MigrateFailed(p)
                       ELSE /\ Migrated(p)
                            /\ store' = MapDelete(store, {sess[p].id})
          /\ (WroteOk(p) /\ sess[p].id \in GeneratedIDs)
             => /\ sess[p].flushed
                /\ store' = MapPut(store, sess[p].id,
                                   Encode(sess[p].name, sess[p].attributes))]_vars

\* The request loaded the record under the cookie's ID, regenerated with
\* destroy and saved: the old record is gone and the new ID holds the data.
C16_Witness ==
    \E p \in Procs :
        /\ pc[p] = "done" /\ ret[p] = "ok"
        /\ sess[p].id \in GeneratedIDs
        /\ IdA \in DOMAIN seed /\ IdA \notin DOMAIN store
        /\ sess[p].id \in DOMAIN store
        /\ "a" \in DOMAIN store[sess[p].id].data
        /\ ~LastCall(p, "a", "put")

-----------------------------------------------------------------------------
(* More properties of Spec *)

\* What the backend holds for session s: the data of the record under its
\* ID, nothing if there is no record or it does not decode under s's name
Persisted(s) ==
    IF s.id \in DOMAIN store /\ DecodeOk(s.name, store[s.id])
    THEN store[s.id].data ELSE EmptyMap

\* The keys of s that are in neither of its deltas
Untracked(s, m) == (DOMAIN Persisted(s) \cup DOMAIN m) \ (DOMAIN s.puts \cup s.forgets)

\* key is in both maps with the same value, or in neither
SameAt(key, m1, m2) ==
    /\ key \in DOMAIN m1 <=> key \in DOMAIN m2
    /\ key \in DOMAIN m1 => m1[key] = m2[key]

\* While p holds the lock, only p's own write changes the record under
\* its ID: the record at the write is the record at the lock.
RecordStableUnderLock(p) ==
    (Holding(p) /\ ~WroteOk(p)) =>
        /\ sess[p].id \in DOMAIN store' <=> sess[p].id \in DOMAIN store
        /\ sess[p].id \in DOMAIN store => store'[sess[p].id] = store[sess[p].id]

-----------------------------------------------------------------------------
(* SpecLive: Spec with the scheduling the Go runtime gives.  A Save that *)
(* holds the lock runs on to its return (the driver's calls return), and *)
(* a goroutine blocked in mu.Lock() gets the mutex if it is released     *)
(* again and again (sync.Mutex hands a starving waiter the lock).        *)

Fairness ==
    \A p \in Requests :
        /\ SF_vars(SaveLock(p) /\ UNCHANGED env)
        /\ WF_vars((\E up \in BOOLEAN : SaveMerge(p, up)) /\ UNCHANGED env)
        /\ WF_vars((\E encOk \in BOOLEAN, writeOk \in BOOLEAN :
                       SaveWrite(p, encOk, writeOk)) /\ UNCHANGED env)
        /\ WF_vars(SaveUnlock(p) /\ UNCHANGED env)

SpecLive == Init /\ [][Next]_vars /\ Fairness

\* C19: a per-ID mutex is locked only while some session of that ID is
\* between taking the lock and the return of its Save, so a session that
\* has started and not yet called Save holds none, and once a Save has
\* returned, with nil or with an encode or write error, its lock is free;
\* hence every Save that waits for the lock gets it.
C19_LockHeldOnlyDuringMergeAndWrite ==
    /\ [](\A id \in locked : \E p \in Procs : Holding(p) /\ sess[p].id = id)
    /\ \A p \in Requests : (pc[p] = "lock") ~> (pc[p] = "locked")

\* Request 1 has started and put a key but not yet called Save; request 2,
\* on the same ID, has meanwhile saved, and the ID's mutex is free.
C19_Witness ==
    /\ pc[1] = "req" /\ sess[1].started /\ sess[1].dirty
    /\ sess[1].id = IdA /\ sess[2].id = IdA
    /\ Saved(2)
    /\ IdA \in DOMAIN lastWriter /\ lastWriter[IdA] = 2
    /\ IdA \in sessionLocks /\ IdA \notin locked

-----------------------------------------------------------------------------
(* Start called again, in SpecOps *)

\* The record a Save of session s would write now: Save's aging, then the
\* final set; up: whether the re-read can succeed
WouldPersist(s, up) == SaveFinal(ageFlashData(s), up)

\* puts, forgets, dirty and flushed of p are as they were
DeltasUnchanged(p) ==
    /\ sess'[p].puts = sess[p].puts
    /\ sess'[p].forgets = sess[p].forgets
    /\ sess'[p].dirty = sess[p].dirty
    /\ sess'[p].flushed = sess[p].flushed

\* the flash lists of p, as Get returns them, are as they were
FlashListsUnchanged(p) ==
    /\ Get(sess'[p], FlashOld, << >>) = Get(sess[p], FlashOld, << >>)
    /\ Get(sess'[p], FlashNew, << >>) = Get(sess[p], FlashNew, << >>)

\* C20, as stated: Start called again on a session with buffered
\* mutations leaves puts, forgets, dirty and flushed as they were, and the
\* Save that follows persists what it would have persisted without it.
C20_SecondStartChangesNothingSaved ==
    [][\A p \in Procs : \A up \in BOOLEAN :
          (DoStartAgain(p, up) /\ sess[p].dirty)
          => /\ DeltasUnchanged(p)
             /\ \A reread \in BOOLEAN :
                   WouldPersist(sess'[p], reread) = WouldPersist(sess[p], reread)]_vars

\* C20, amended: Start called again on a session with buffered mutations
\* leaves puts, forgets, dirty and flushed as they were; if the session is
\* not flushed and the reload leaves its flash lists as they were, the
\* Save that follows persists what it would have persisted without it.
C20_SecondStartKeepsDeltas ==
    [][\A p \in Procs : \A up \in BOOLEAN :
          (DoStartAgain(p, up) /\ sess[p].dirty)
          => /\ DeltasUnchanged(p)
             /\ (~sess[p].flushed /\ FlashListsUnchanged(p))
                => \A reread \in BOOLEAN :
                      WouldPersist(sess'[p], reread) = WouldPersist(sess[p], reread)]_vars

\* The handler forgot "a" and then called Start again: "a" is back in the
\* attributes from the backend, and still in forgets.
C20_Witness ==
    \E p \in Procs :
        /\ pc[p] = "req" /\ ~sess[p].flushed /\ sess[p].dirty
        /\ LastCall(p, "a", "forget")
        /\ "a" \in sess[p].forgets
        /\ "a" \in DOMAIN sess[p].attributes

-----------------------------------------------------------------------------
(* A caller that retries a failed Save: one client, requests in sequence,    *)
(* the codec always encodes and the driver's Write may fail.                 *)

\* Save() called again after it returned an error, nothing called in between
SaveAgain(p) ==
    /\ pc[p] = "done"
    /\ ret[p] = "err"
    /\ SaveBegin(p)

NextRetry ==
    \E p \in Clients :
        \/ BuildSession(p, CookieName, << MockDriver >>) /\ UNCHANGED env
        \/ DoSetID(p, IdA) /\ UNCHANGED env
        \/ \E up \in BOOLEAN : sess[p].id = IdA /\ DoStart(p, up) /\ UNCHANGED env
        \/ \E k \in UserKeys : DoPut(p, k, PutValue) /\ UNCHANGED env
        \/ \E k \in UserKeys : DoForget(p, k) /\ UNCHANGED env
        \/ DoFlush(p) /\ UNCHANGED env
        \/ \E k \in UserKeys : DoFlash(p, k, FlashValue) /\ UNCHANGED env
        \/ \E k \in UserKeys : DoNow(p, k, FlashValue) /\ UNCHANGED env
        \/ pc[p] = "req" /\ SaveBegin(p) /\ UNCHANGED env
        \/ SaveLock(p) /\ UNCHANGED env
        \/ \E up \in BOOLEAN : SaveMerge(p, up) /\ UNCHANGED env
        \/ \E writeOk \in BOOLEAN : SaveWrite(p, TRUE, writeOk) /\ UNCHANGED env
        \/ SaveUnlock(p) /\ UNCHANGED env
        \/ SaveAgain(p) /\ UNCHANGED env
        \/ ReleaseSession(p) /\ UNCHANGED env

SpecRetry == InitSeq /\ [][NextRetry]_vars

\* The retry of a failed Save begins
RetryBegins(p) == pc[p] = "done" /\ ret[p] = "err" /\ pc'[p] \in {"lock", "done"}

\* C21: a Save that failed at the driver's Write and is called again, with
\* nothing called in between and no other writer, persists the record the
\* first Save would have persisted: whatever the re-read returns, the record
\* built from the session as the retry has aged it equals the record built
\* from the session as the first Save left it (flash keys aged once).
C21_RetryPersistsWhatFirstSaveWould ==
    [][\A p \in Clients :
           RetryBegins(p) =>
               \A up \in BOOLEAN : SaveFinal(sess'[p], up) = SaveFinal(sess[p], up)]_vars

-----------------------------------------------------------------------------
(* Requests in flight while a session is destroyed: every request carries   *)
(* the cookie's ID and starts while the record under it exists; one of them *)
(* then calls Invalidate or Regenerate(true), the others go on to Save.     *)

DestroyStores == {[i \in {IdA} |-> SeedRecord]}

InitDestroy == InitWith(Requests, DestroyStores) /\ drivers = {MockDriver}

NextDestroy ==
    \E p \in Requests :
        \/ BuildSession(p, CookieName, << MockDriver >>) /\ UNCHANGED env
        \/ DoSetID(p, IdA) /\ UNCHANGED env
        \/ \E up \in BOOLEAN :
              sess[p].id \in DOMAIN store /\ DoStart(p, up) /\ UNCHANGED env
        \/ \E k \in UserKeys : DoPut(p, k, p) /\ UNCHANGED env
        \/ \E k \in UserKeys : DoForget(p, k) /\ UNCHANGED env
        \/ \E destroyOk \in BOOLEAN : DoRegenerate(p, << TRUE >>, destroyOk) /\ UNCHANGED env
        \/ \E destroyOk \in BOOLEAN : DoInvalidate(p, destroyOk) /\ UNCHANGED env
        \/ pc[p] = "req" /\ SaveBegin(p) /\ UNCHANGED env
        \/ SaveLock(p) /\ UNCHANGED env
        \/ \E up \in BOOLEAN : SaveMerge(p, up) /\ UNCHANGED env
        \/ \E encOk \in BOOLEAN, writeOk \in BOOLEAN : SaveWrite(p, encOk, writeOk) /\ UNCHANGED env
        \/ SaveUnlock(p) /\ UNCHANGED env

SpecDestroy == InitDestroy /\ [][NextDestroy]_vars

\* The record under id was destroyed: it was there at the start and only
\* the driver's Destroy removes a record
Destroyed(id) == id \in DOMAIN seed /\ id \notin DOMAIN store

\* C22: once Invalidate or Regenerate(true) has destroyed the record under
\* the old session ID, no record exists under that ID, and none appears
\* again when the requests that were started under the old ID complete
\* their Saves.
C22_DestroyedRecordStaysGone ==
    [][\A id \in DOMAIN seed : Destroyed(id) => id \notin DOMAIN store']_vars

=============================================================================
